---- MODULE Spec2Model ----
(***************************************************************************)
(* A model of the recipe engine of prototest (src/src/recipe/core.rs), of  *)
(* the DER layer built on it (src/src/recipe/der.rs) and of x509_time of   *)
(* the earlier DER layer (src/src/old_recipe/der.rs).                      *)
(*                                                                         *)
(* Octets are the integers 0..255 and a Fragment is a sequence of octets.  *)
(* A routine of the source that only pushes octets to its target is an     *)
(* operator that yields a record [out, ok]: the octets it appended, and    *)
(* whether it returned (ok) or panicked after appending them (~ok).        *)
(* Recipe::assemble and the routines that pass their target on take the    *)
(* target tgt and yield [out, ok] with out the target afterwards.          *)
(***************************************************************************)
EXTENDS Integers, Sequences, FiniteSets, TLC

(***************************************************************************)
(* Bounds of the model.                                                    *)
(***************************************************************************)
\* A stream has up to MaxRules rules.
MaxRules == 2
\* The data of a rule has MaxData octets.
MaxData == 3
\* Buffers read into and written from have up to MaxBuf octets.
MaxBuf == 3
\* A recipe is assembled up to MaxRuns times.
MaxRuns == 3
\* Hex strings of up to MaxHexLen characters over HexChars are all tried.
MaxHexLen == 4
\* Every character up to code point MaxChar is tried, doubled, as a string.
MaxChar == 127
\* Content lengths 0..MaxLength are all tried by the length codec.
MaxLength == 300
\* Tag numbers and OID arcs 0..MaxNumber are all tried.
MaxNumber == 200
\* The integers -MaxInteger..MaxInteger are all tried by the integer codec.
MaxInteger == 300
\* Raw integer slices hold up to MaxSlice octets.
MaxSlice == 3
\* Object identifiers have up to MaxArcs arcs.
MaxArcs == 3
\* Sequences and sets nest up to MaxDepth levels below the outermost one.
MaxDepth == 2
\* Sequences and sets of plain values have up to MaxItems items.
MaxItems == 7

(***************************************************************************)
(* Octet arithmetic.                                                       *)
(***************************************************************************)
\* x as u8
as_u8(x) == x % 256

\* a | b on octets
RECURSIVE BitOr(_, _)
BitOr(a, b) ==
    IF a = 0 THEN b
    ELSE IF b = 0 THEN a
    ELSE (IF (a % 2 = 1) \/ (b % 2 = 1) THEN 1 ELSE 0)
         + 2 * BitOr(a \div 2, b \div 2)

\* a & b on octets
RECURSIVE BitAnd(_, _)
BitAnd(a, b) ==
    IF a = 0 \/ b = 0 THEN 0
    ELSE (IF (a % 2 = 1) /\ (b % 2 = 1) THEN 1 ELSE 0)
         + 2 * BitAnd(a \div 2, b \div 2)

\* The number of significant bits of a non-negative integer, that is
\* T::BITS - x.leading_zeros().
RECURSIVE BitLength(_)
BitLength(x) == IF x = 0 THEN 0 ELSE 1 + BitLength(x \div 2)

\* x.to_be_bytes() for an integer type of n octets: the two's complement
\* of x in n octets, most significant octet first.
RECURSIVE to_be_bytes(_, _)
to_be_bytes(x, n) ==
    IF n = 0 THEN << >>
    ELSE Append(to_be_bytes(x \div 256, n - 1), x % 256)

(***************************************************************************)
(* Results of assembling.                                                  *)
(***************************************************************************)
Ok(octets) == [out |-> octets, ok |-> TRUE]
Panic(octets) == [out |-> octets, ok |-> FALSE]

\* Statement sequencing: r, then s unless r panicked.
Then(r, s) ==
    IF r.ok THEN [out |-> r.out \o s.out, ok |-> s.ok] ELSE r

(***************************************************************************)
(* The state.                                                              *)
(***************************************************************************)
VARIABLES
    usize_BITS, \* the width of usize on the host the crate is built for
    op,         \* the routine called last on a fresh Fragment
    arg,        \* what it was called with, a record
    target,     \* the Fragment it appended to
    panicked,   \* whether it panicked
    stream,     \* the AssertStream: rules, rule_index, all_index
    result,     \* what the last call on the stream returned
    progress    \* the octets that went through under the current rule

vars == <<usize_BITS, op, arg, target, panicked, stream, result, progress>>

(***************************************************************************)
(* Value::assemble_length                                                  *)
(***************************************************************************)
assemble_length(len) ==
    IF len < 128
    THEN Ok(<<as_u8(len)>>)
    ELSE LET usize_octets == usize_BITS \div 8
             leading_zeros == usize_BITS - BitLength(len)
             octets == ((usize_BITS - leading_zeros) \div 8) + 1
             first == BitOr(as_u8(octets), 128)
         IN  IF usize_octets - octets < 0
             THEN Panic(<<first>>)
             ELSE Ok(<<first>> \o SubSeq(to_be_bytes(len, usize_octets),
                                        usize_octets - octets + 1,
                                        usize_octets))

(***************************************************************************)
(* The integer codec.                                                      *)
(***************************************************************************)
\* slice with its leading octets equal to x skipped:
\*   while slice.get(0).copied() == Some(x) { slice = &slice[1..]; }
RECURSIVE SkipLeading(_, _)
SkipLeading(slice, x) ==
    IF Len(slice) > 0 /\ slice[1] = x THEN SkipLeading(Tail(slice), x)
    ELSE slice

\* slice.get(0).copied().unwrap_or(0xFF)
FirstOrFF(slice) == IF Len(slice) > 0 THEN slice[1] ELSE 255

\* assemble_unsigned_slice without the octet added to keep the sign.
assemble_unsigned_slice_bare(slice) ==
    Ok(SkipLeading(slice, 0))

assemble_unsigned_slice(slice) ==
    LET rest == SkipLeading(slice, 0)
    IN  Ok((IF BitAnd(FirstOrFF(rest), 128) # 0 THEN <<0>> ELSE << >>) \o rest)

assemble_signed_slice(slice) ==
    IF BitAnd(FirstOrFF(slice), 128) = 0
    THEN assemble_unsigned_slice(slice)
    ELSE LET rest == SkipLeading(slice, 255)
         IN  IF Len(rest) = 0 THEN Ok(<<255>>) ELSE Ok(rest)

UnsignedTypes == {"u8", "u16", "u32", "u64", "u128", "usize"}
SignedTypes == {"i8", "i16", "i32", "i64", "i128", "isize"}

\* The number of octets of a fixed-width integer type.
SizeOf(ty) ==
    CASE ty \in {"u8", "i8"} -> 1
      [] ty \in {"u16", "i16"} -> 2
      [] ty \in {"u32", "i32"} -> 4
      [] ty \in {"u64", "i64"} -> 8
      [] ty \in {"u128", "i128"} -> 16
      [] ty \in {"usize", "isize"} -> usize_BITS \div 8

\* Whether v is a value of the type.
InType(ty, v) ==
    IF ty \in UnsignedTypes
    THEN v >= 0 /\ BitLength(v) <= 8 * SizeOf(ty)
    ELSE BitLength(IF v < 0 THEN -(v + 1) ELSE v) < 8 * SizeOf(ty)

\* assemble_integer with u8 pushed as it is, like i8.
assemble_integer_u8_bare(ty, v) ==
    CASE ty \in {"u8", "i8"} ->
           Ok(<<as_u8(v)>>)
      [] ty \in UnsignedTypes \ {"u8"} ->
           assemble_unsigned_slice(to_be_bytes(v, SizeOf(ty)))
      [] ty \in SignedTypes \ {"i8"} ->
           assemble_signed_slice(to_be_bytes(v, SizeOf(ty)))

\* IntegerContent::assemble_integer for the fixed-width types.
assemble_integer(ty, v) ==
    CASE ty = "u8" ->
           Ok((IF v > 127 THEN <<0>> ELSE << >>) \o <<v>>)
      [] ty = "i8" ->
           Ok(<<as_u8(v)>>)
      [] ty \in UnsignedTypes \ {"u8"} ->
           assemble_unsigned_slice(to_be_bytes(v, SizeOf(ty)))
      [] ty \in SignedTypes \ {"i8"} ->
           assemble_signed_slice(to_be_bytes(v, SizeOf(ty)))

(***************************************************************************)
(* Tags.                                                                   *)
(***************************************************************************)
\* The 19 base-128 digits of number, most significant first:
\*   for i in (0..19).rev() { digits[i] = (number as u8) & 0x7F; number >>= 7 }
RECURSIVE Base7Digits(_, _)
Base7Digits(number, n) ==
    IF n = 0 THEN << >>
    ELSE Append(Base7Digits(number \div 128, n - 1), BitAnd(as_u8(number), 127))

\* The index (from 1) of the first digit to emit:
\*   while idx < 18 && digits[idx] == 0 { idx += 1 }
RECURSIVE SkipEmpty(_, _)
SkipEmpty(digits, idx) ==
    IF idx < 19 /\ digits[idx] = 0 THEN SkipEmpty(digits, idx + 1) ELSE idx

\* assemble_base_7 without the skipping of the empty leading digits.
assemble_base_7_no_skip(number) ==
    LET digits == Base7Digits(number, 19)
    IN  Ok([i \in 1..18 |-> BitOr(digits[i], 128)] \o <<digits[19]>>)

assemble_base_7(number) ==
    LET digits == Base7Digits(number, 19)
        idx == SkipEmpty(digits, 1)
    IN  Ok([i \in 1..(19 - idx) |-> BitOr(digits[idx + i - 1], 128)]
           \o <<digits[19]>>)

Classes == {"Universal", "Application", "Context", "Private"}

\* Tag::new
Tag_new(c, n) == [class |-> c, number |-> n]

\* Tag::universal
Tag_universal(number) == Tag_new("Universal", number)

\* Tag::assemble taking the one-octet form up to and including number 31.
Tag_assemble_short_31(tag, bit6) ==
    LET first0 == CASE tag.class = "Universal" -> 0
                    [] tag.class = "Application" -> 64
                    [] tag.class = "Context" -> 128
                    [] tag.class = "Private" -> 192
        first == IF bit6 THEN BitOr(first0, 32) ELSE first0
    IN  IF tag.number <= 31
        THEN Ok(<<BitOr(first, as_u8(tag.number))>>)
        ELSE Then(Ok(<<BitOr(first, 31)>>), assemble_base_7(tag.number))

\* Tag::assemble
Tag_assemble(tag, bit6) ==
    LET first0 == CASE tag.class = "Universal" -> 0
                    [] tag.class = "Application" -> 64
                    [] tag.class = "Context" -> 128
                    [] tag.class = "Private" -> 192
        first == IF bit6 THEN BitOr(first0, 32) ELSE first0
    IN  IF tag.number < 31
        THEN Ok(<<BitOr(first, as_u8(tag.number))>>)
        ELSE Then(Ok(<<BitOr(first, 31)>>), assemble_base_7(tag.number))

(***************************************************************************)
(* Recipes.  A recipe is a record whose kind names the type implementing   *)
(* Recipe or DerContent.                                                   *)
(***************************************************************************)
\* core.rs
empty == [kind |-> "Empty"]
literal(data) == [kind |-> "Literal", data |-> data]
\* a tuple of two to six recipes
tuple(items) == [kind |-> "Tuple", items |-> items]
iter(items) == [kind |-> "Iter", items |-> items]

\* der.rs
constructed(content) == [kind |-> "ConstructedDerContent", content |-> content]
simple(recipe) == [kind |-> "SimpleDerContent", content |-> recipe]
value(tag, content) == [kind |-> "Value", tag |-> tag, content |-> content]
universal(number, content) == value(Tag_new("Universal", number), content)
application(number, content) == value(Tag_new("Application", number), content)
\* context() building its tag in the Application class.
context_as_application(number, content) ==
    [kind |-> "Value", tag |-> Tag_new("Application", number),
     content |-> content]
context(number, content) == value(Tag_new("Context", number), content)
private(number, content) == value(Tag_new("Private", number), content)
boolean(x) == [kind |-> "Boolean", octet |-> IF x THEN 255 ELSE 0]
\* integer(int) for int of the fixed-width type ty
integer(ty, int) == [kind |-> "Integer", ty |-> ty, int |-> int]
\* integer(int) for int a &[u8] or Vec<u8>
integer_of_slice(int) == [kind |-> "Integer", ty |-> "slice", int |-> int]
integer_slice(int) == [kind |-> "IntegerSlice", int |-> int]
null == [kind |-> "Null"]
oid(items) == [kind |-> "Oid", items |-> items]
sequence(items) == universal(16, constructed(items))
set(items) == universal(17, constructed(items))
StringValue_new(tag, content) ==
    [kind |-> "StringValue", tag |-> tag, content |-> content]
bitstring(unused, content) ==
    StringValue_new(Tag_universal(3),
                    sequence(tuple(<<literal(<<unused>>), content>>)))
octetstring(content) == StringValue_new(Tag_universal(4), content)
printable_string(content) == StringValue_new(Tag_universal(19), content)
ia5_string(content) == StringValue_new(Tag_universal(22), content)
utc_time(time) == [kind |-> "UtcTime", time |-> time]
generalized_time(time) == [kind |-> "GeneralizedTime", time |-> time]

\* is_constructed with a complete Value classified by its own content.
is_constructed_by_inner(content) ==
    CASE content.kind = "ConstructedDerContent" -> TRUE
      [] content.kind = "Value" ->
           content.content.kind = "ConstructedDerContent"
      [] OTHER -> FALSE

\* DerContent::is_constructed
is_constructed(content) ==
    CASE content.kind = "ConstructedDerContent" -> TRUE
      [] content.kind = "SimpleDerContent" -> FALSE
      [] content.kind = "Value" -> TRUE
      [] content.kind = "Boolean" -> FALSE
      [] content.kind = "Integer" -> FALSE
      [] content.kind = "IntegerSlice" -> FALSE
      [] content.kind = "Null" -> FALSE
      [] content.kind = "Oid" -> FALSE
      [] content.kind = "StringValue" -> FALSE
      [] content.kind = "UtcTime" -> FALSE
      [] content.kind = "GeneralizedTime" -> FALSE

\* A routine that only pushes octets, run on the target tgt.
Onto(tgt, r) == [out |-> tgt \o r.out, ok |-> r.ok]

\* for value in &self.0[2..] { assemble_base_7(*value, target) }
RECURSIVE assemble_each_base_7(_)
assemble_each_base_7(values) ==
    IF Len(values) = 0 THEN Ok(<< >>)
    ELSE Then(assemble_base_7(Head(values)), assemble_each_base_7(Tail(values)))

\* DerContent for Oid without the merging of the first two arcs.
Oid_assemble_content_unmerged(items) ==
    IF Len(items) < 2 THEN Panic(<< >>)
    ELSE assemble_each_base_7(items)

\* DerContent for Oid: self.0[0] and self.0[1] are indexed unchecked.
Oid_assemble_content(items) ==
    IF Len(items) < 2 THEN Panic(<< >>)
    ELSE Then(assemble_base_7((items[1] * 40) + items[2]),
              assemble_each_base_7(SubSeq(items, 3, Len(items))))

\* Two and four decimal digits in ASCII, as chrono formats %y, %m, ... and %Y.
Format2(n) == <<48 + ((n \div 10) % 10), 48 + (n % 10)>>
Format4(n) == Format2(n \div 100) \o Format2(n % 100)

\* TimeContent for chrono::DateTime<Utc>: "%y%m%d%H%M%SZ"
assemble_utc_time(t) ==
    Ok(Format2(t.year % 100) \o Format2(t.month) \o Format2(t.day)
       \o Format2(t.hour) \o Format2(t.minute) \o Format2(t.second) \o <<90>>)

\* TimeContent for chrono::DateTime<Utc>: "%Y%m%d%H%M%SZ"
assemble_generalized_time(t) ==
    Ok(Format4(t.year) \o Format2(t.month) \o Format2(t.day)
       \o Format2(t.hour) \o Format2(t.minute) \o Format2(t.second) \o <<90>>)

(***************************************************************************)
(* hex: a string is the sequence of the code points of its characters.     *)
(***************************************************************************)
\* char::is_ascii_whitespace: U+0020 SPACE, U+0009 TAB, U+000A LINE FEED,
\* U+000C FORM FEED and U+000D CARRIAGE RETURN.
is_ascii_whitespace(ch) == ch \in {32, 9, 10, 12, 13}

\* char::to_digit(16): the digit's value, or -1 for None.
to_digit(ch) ==
    CASE ch \in 48..57 -> ch - 48
      [] ch \in 97..102 -> ch - 97 + 10
      [] ch \in 65..70 -> ch - 65 + 10
      [] OTHER -> -1

\* char::is_digit(16)
is_digit(ch) == to_digit(ch) # -1

\* The loop of Hex::check from the i-th character on, count digits seen.
RECURSIVE Hex_check_from(_, _, _)
Hex_check_from(hex, i, count) ==
    IF i > Len(hex)
    THEN IF count % 2 # 0 THEN Panic(<< >>) ELSE Ok(<< >>)
    ELSE IF is_ascii_whitespace(hex[i]) THEN Hex_check_from(hex, i + 1, count)
    ELSE IF is_digit(hex[i]) THEN Hex_check_from(hex, i + 1, count + 1)
    ELSE Panic(<< >>)

\* Hex::check accepting any number of digits.
Hex_check_uncounted(hex) ==
    IF \A i \in 1..Len(hex) : is_ascii_whitespace(hex[i]) \/ is_digit(hex[i])
    THEN Ok(<< >>) ELSE Panic(<< >>)

\* Hex::check: ok iff it returns self.
Hex_check(hex) == Hex_check_from(hex, 1, 0)

\* hex(hex), for a string that passes the check.
Hex(hex) == [kind |-> "Hex", hex |-> hex]

\* chars().filter_map(|ch| ch.to_digit(16)): the digits of the string.
RECURSIVE filter_map_to_digit(_)
filter_map_to_digit(hex) ==
    IF Len(hex) = 0 THEN << >>
    ELSE (IF to_digit(Head(hex)) # -1 THEN <<to_digit(Head(hex))>> ELSE << >>)
         \o filter_map_to_digit(Tail(hex))

\* The loop of Hex::assemble with the digits of a pair the other way round.
RECURSIVE Hex_assemble_swapped(_)
Hex_assemble_swapped(chars) ==
    IF Len(chars) = 0 THEN Ok(<< >>)
    ELSE IF Len(chars) = 1 THEN Panic(<< >>)
    ELSE Then(Ok(<<BitOr((chars[2] * 16) % 256, chars[1])>>),
              Hex_assemble_swapped(Tail(Tail(chars))))

\* while let Some(ch1) = chars.next() {
\*     target.push((ch1 << 4) | chars.next().unwrap()) }
RECURSIVE Hex_assemble_pairs(_)
Hex_assemble_pairs(chars) ==
    IF Len(chars) = 0 THEN Ok(<< >>)
    ELSE IF Len(chars) = 1 THEN Panic(<< >>)
    ELSE Then(Ok(<<BitOr((chars[1] * 16) % 256, chars[2])>>),
              Hex_assemble_pairs(Tail(Tail(chars))))

\* Recipe for Hex
Hex_assemble(hex) == Hex_assemble_pairs(filter_map_to_digit(hex))

(***************************************************************************)
(* exec: the closures a caller may hand in are not part of the source; two *)
(* stand for them.  "push_len" pushes the number of octets the target      *)
(* holds; "push_calls" pushes the number of times it has run, which it     *)
(* keeps in a Cell it has captured.                                        *)
(***************************************************************************)
exec(closure) == [kind |-> "Exec", closure |-> closure, cell |-> 0]

\* Recipe for Exec: (self.0)(target)
Exec_assemble(recipe, tgt) ==
    CASE recipe.closure = "push_len" -> Ok(Append(tgt, as_u8(Len(tgt))))
      [] recipe.closure = "push_calls" -> Ok(Append(tgt, recipe.cell))

RECURSIVE assemble(_, _)
RECURSIVE assemble_content(_, _)
RECURSIVE assemble_items(_, _)

\* Recipe for Value never setting the constructed bit.
Value_assemble_primitive(tag, content, tgt) ==
    LET scratch == assemble_content(content, << >>)
    IN  IF ~scratch.ok THEN Panic(tgt)
        ELSE Onto(tgt,
                  Then(Tag_assemble(tag, FALSE),
                  Then(assemble_length(Len(scratch.out)),
                       Ok(scratch.out))))

\* Recipe for Value with the content assembled into the target itself and
\* the target measured.
Value_assemble_in_place(tag, content, tgt) ==
    LET scratch == assemble_content(content, tgt)
    IN  IF ~scratch.ok THEN Panic(tgt)
        ELSE Onto(tgt,
                  Then(Tag_assemble(tag, is_constructed(content)),
                  Then(assemble_length(Len(scratch.out)),
                       Ok(SubSeq(scratch.out, Len(tgt) + 1,
                                 Len(scratch.out))))))

\* Recipe for Value: the content goes to a Fragment of its own first, so a
\* panic while assembling it leaves the target as it was.
Value_assemble(tag, content, tgt) ==
    LET scratch == assemble_content(content, << >>)
    IN  IF ~scratch.ok THEN Panic(tgt)
        ELSE Onto(tgt,
                  Then(Tag_assemble(tag, is_constructed(content)),
                  Then(assemble_length(Len(scratch.out)),
                       Ok(scratch.out))))

\* The items assembled last to first.
RECURSIVE assemble_items_reversed(_, _)
assemble_items_reversed(items, tgt) ==
    IF Len(items) = 0 THEN Ok(tgt)
    ELSE LET r == assemble_items_reversed(Tail(items), tgt)
         IN  IF r.ok THEN assemble(Head(items), r.out) ELSE r

\* self.0.assemble(target); self.1.assemble(target); ... and
\* for item in &self.0 { item.assemble(target) }
assemble_items(items, tgt) ==
    IF Len(items) = 0 THEN Ok(tgt)
    ELSE LET r == assemble(Head(items), tgt)
         IN  IF r.ok THEN assemble_items(Tail(items), r.out) ELSE r

\* DerContent::assemble_content
assemble_content(content, tgt) ==
    CASE content.kind = "ConstructedDerContent" ->
           assemble(content.content, tgt)
      [] content.kind = "SimpleDerContent" -> assemble(content.content, tgt)
      [] content.kind = "Value" -> assemble(content, tgt)
      [] content.kind = "Boolean" -> Onto(tgt, Ok(<<content.octet>>))
      [] content.kind = "Integer" ->
           IF content.ty = "slice"
           THEN Onto(tgt, assemble_signed_slice(content.int))
           ELSE Onto(tgt, assemble_integer(content.ty, content.int))
      [] content.kind = "IntegerSlice" ->
           Onto(tgt, assemble_signed_slice(content.int))
      [] content.kind = "Null" -> Ok(tgt)
      [] content.kind = "Oid" ->
           Onto(tgt, Oid_assemble_content(content.items))
      [] content.kind = "StringValue" -> assemble(content.content, tgt)
      [] content.kind = "UtcTime" ->
           Onto(tgt, assemble_utc_time(content.time))
      [] content.kind = "GeneralizedTime" ->
           Onto(tgt, assemble_generalized_time(content.time))

\* Recipe::assemble
assemble(recipe, tgt) ==
    CASE recipe.kind = "Empty" -> Ok(tgt)
      [] recipe.kind = "Literal" -> Ok(tgt \o recipe.data)
      [] recipe.kind = "Hex" -> Onto(tgt, Hex_assemble(recipe.hex))
      [] recipe.kind = "Exec" -> Exec_assemble(recipe, tgt)
      [] recipe.kind = "Tuple" -> assemble_items(recipe.items, tgt)
      [] recipe.kind = "Iter" -> assemble_items(recipe.items, tgt)
      [] recipe.kind = "Value" ->
           Value_assemble(recipe.tag, recipe.content, tgt)
      [] recipe.kind = "Boolean" ->
           Value_assemble(Tag_universal(1), recipe, tgt)
      [] recipe.kind = "Integer" ->
           Value_assemble(Tag_universal(2), recipe, tgt)
      [] recipe.kind = "IntegerSlice" ->
           Value_assemble(Tag_universal(2), recipe, tgt)
      [] recipe.kind = "Null" ->
           Value_assemble(Tag_universal(5), recipe, tgt)
      [] recipe.kind = "Oid" ->
           Value_assemble(Tag_universal(6), recipe, tgt)
      [] recipe.kind = "StringValue" ->
           Value_assemble(recipe.tag, recipe, tgt)
      [] recipe.kind = "UtcTime" ->
           Value_assemble(Tag_universal(23), recipe, tgt)
      [] recipe.kind = "GeneralizedTime" ->
           Value_assemble(Tag_universal(23), recipe, tgt)

\* Recipe::to_fragment: assemble into Fragment::new()
to_fragment(recipe) == assemble(recipe, << >>)

\* The recipe after an assembly that drains the iterator of every Iter.
RECURSIVE after_assemble_drained(_)
after_assemble_drained(recipe) ==
    CASE recipe.kind = "Exec" ->
           IF recipe.closure = "push_calls"
           THEN [recipe EXCEPT !.cell = as_u8(@ + 1)]
           ELSE recipe
      [] recipe.kind = "Iter" -> [recipe EXCEPT !.items = << >>]
      [] recipe.kind = "Tuple" ->
           [recipe EXCEPT
               !.items = [i \in 1..Len(@) |-> after_assemble_drained(@[i])]]
      [] recipe.kind \in {"Value", "StringValue", "ConstructedDerContent",
                          "SimpleDerContent"} ->
           [recipe EXCEPT !.content = after_assemble_drained(@)]
      [] OTHER -> recipe

\* The recipe after an assembly that returned. assemble takes &self and
\* Iter goes through its items by reference, so only what a closure keeps
\* in a Cell changes.
RECURSIVE after_assemble(_)
after_assemble(recipe) ==
    CASE recipe.kind = "Exec" ->
           IF recipe.closure = "push_calls"
           THEN [recipe EXCEPT !.cell = as_u8(@ + 1)]
           ELSE recipe
      [] recipe.kind \in {"Tuple", "Iter"} ->
           [recipe EXCEPT
               !.items = [i \in 1..Len(@) |-> after_assemble(@[i])]]
      [] recipe.kind \in {"Value", "StringValue", "ConstructedDerContent",
                          "SimpleDerContent"} ->
           [recipe EXCEPT !.content = after_assemble(@)]
      [] OTHER -> recipe

\* old_recipe: utc_time(time), a universal 23 value of UtcTimeContent(time)
old_recipe_utc_time(time) == value(Tag_universal(23), utc_time(time))

\* old_recipe: generalized_time(time), a universal 24 value of
\* GeneralizedTimeContent(time)
old_recipe_generalized_time(time) ==
    value(Tag_universal(24), generalized_time(time))

\* old_recipe: x509_time(time)
x509_time(time) ==
    IF time.year >= 2050
    THEN old_recipe_utc_time(time)
    ELSE old_recipe_generalized_time(time)

(***************************************************************************)
(* Inputs.                                                                 *)
(***************************************************************************)
(* AssertStream (src/src/stream.rs).  A FragmentRule is a record with its  *)
(* kind and, for Send, SendAll, Recv, RecvAll, its data.  Every call on    *)
(* the stream is an operator that yields [self, ret, buf, ok]: the stream  *)
(* afterwards, the value returned, the caller's buffer afterwards, and     *)
(* whether it returned (ok) or panicked (~ok).                             *)
(***************************************************************************)
Send(data) == [kind |-> "Send", data |-> data]
SendAll(data) == [kind |-> "SendAll", data |-> data]
Recv(data) == [kind |-> "Recv", data |-> data]
RecvAll(data) == [kind |-> "RecvAll", data |-> data]
SendClose == [kind |-> "SendClose"]
RecvClose == [kind |-> "RecvClose"]

\* AssertStream::new
AssertStream_new(rules) ==
    [rules |-> rules, rule_index |-> 0, all_index |-> 0]

\* self.rules.fragments.get(self.rule_index)
current_rule(self) ==
    IF self.rule_index < Len(self.rules)
    THEN self.rules[self.rule_index + 1]
    ELSE [kind |-> "None"]

Returns(self, ret, buf) == [self |-> self, ret |-> ret, buf |-> buf, ok |-> TRUE]
Panics(self, buf) ==
    [self |-> self, ret |-> [kind |-> "None"], buf |-> buf, ok |-> FALSE]
OkUsize(n) == [kind |-> "Ok", n |-> n]
OkUnit == [kind |-> "Ok"]
ErrWouldBlock == [kind |-> "Err", error |-> "WouldBlock"]
Pending == [kind |-> "Pending"]

\* buf[..Len(data)].copy_from_slice(data)
copy_from_slice(buf, data) ==
    data \o SubSeq(buf, Len(data) + 1, Len(buf))

\* next_fragment leaving all_index as it is.
next_fragment_keeping(self) ==
    [self EXCEPT !.rule_index = @ + 1]

\* AssertStream::next_fragment
next_fragment(self) ==
    [self EXCEPT !.rule_index = @ + 1, !.all_index = 0]

\* read on Send or SendAll consuming the rule.
read_Send_consuming(self, buf) ==
    Returns(next_fragment(self), ErrWouldBlock, buf)

\* Read::read, Send and SendAll
read_Send(self, buf) ==
    Returns(self, ErrWouldBlock, buf)

\* read on Recv copying into a buffer of any size.
read_Recv_unchecked(self, data, buf) ==
    Returns(next_fragment(self), OkUsize(Len(data)),
            copy_from_slice(buf, data))

\* Read::read, Recv
read_Recv(self, data, buf) ==
    IF Len(buf) < Len(data)
    THEN Panics(self, buf)
    ELSE Returns(next_fragment(self), OkUsize(Len(data)),
                 copy_from_slice(buf, data))

\* read on RecvAll that starts over at the head of the data.
read_RecvAll_from_head(self, data, buf) ==
    IF Len(buf) >= Len(data)
    THEN Returns(next_fragment(self), OkUsize(Len(data)),
                 copy_from_slice(buf, data))
    ELSE Returns([self EXCEPT !.all_index = @ + Len(buf)],
                 OkUsize(Len(buf)), SubSeq(data, 1, Len(buf)))

\* Read::read, RecvAll
read_RecvAll(self, data, buf) ==
    IF self.all_index > Len(data)
    THEN Panics(self, buf)
    ELSE LET remaining_data == SubSeq(data, self.all_index + 1, Len(data))
             len == Len(remaining_data)
             buf_remaining == Len(buf)
         IN  IF buf_remaining >= len
             THEN Returns(next_fragment(self), OkUsize(len),
                          copy_from_slice(buf, remaining_data))
             ELSE Returns([self EXCEPT !.all_index = @ + buf_remaining],
                          OkUsize(buf_remaining),
                          SubSeq(remaining_data, 1, buf_remaining))

\* read on RecvClose consuming the rule.
read_RecvClose_consuming(self, buf) ==
    Returns(next_fragment(self), OkUsize(0), buf)

\* Read::read, RecvClose
read_RecvClose(self, buf) ==
    Returns(self, OkUsize(0), buf)

\* Read::read
AssertStream_read(self, buf) ==
    LET rule == current_rule(self)
    IN  CASE rule.kind \in {"Send", "SendAll"} -> read_Send(self, buf)
          [] rule.kind = "Recv" -> read_Recv(self, rule.data, buf)
          [] rule.kind = "RecvAll" -> read_RecvAll(self, rule.data, buf)
          [] rule.kind = "SendClose" -> Panics(self, buf)
          [] rule.kind = "RecvClose" -> read_RecvClose(self, buf)
          [] rule.kind = "None" -> Panics(self, buf)

\* AsyncRead::poll_read; buf is what the ReadBuf has room for and the
\* buffer afterwards is what was put into it. ReadBuf::put_slice panics
\* when there is less room than octets put.
AssertStream_poll_read(self, buf) ==
    LET rule == current_rule(self)
    IN  CASE rule.kind \in {"Send", "SendAll"} ->
               Returns(self, Pending, << >>)
          [] rule.kind = "Recv" ->
               IF Len(buf) < Len(rule.data)
               THEN Panics(self, << >>)
               ELSE Returns(next_fragment(self), OkUnit, rule.data)
          [] rule.kind = "RecvAll" ->
               IF self.all_index > Len(rule.data)
               THEN Panics(self, << >>)
               ELSE LET remaining_data ==
                            SubSeq(rule.data, self.all_index + 1,
                                   Len(rule.data))
                        buf_remaining == Len(buf)
                    IN  IF buf_remaining >= Len(remaining_data)
                        THEN Returns(next_fragment(self), OkUnit,
                                     remaining_data)
                        ELSE Returns([self EXCEPT
                                         !.all_index = @ + buf_remaining],
                                     OkUnit,
                                     SubSeq(remaining_data, 1, buf_remaining))
          [] rule.kind = "SendClose" -> Panics(self, << >>)
          [] rule.kind = "RecvClose" -> Returns(self, OkUnit, << >>)
          [] rule.kind = "None" -> Panics(self, << >>)

\* write on Send that wants the buffer to be the data, no longer.
write_Send_exact(self, data, buf) ==
    IF buf # data
    THEN Panics(self, buf)
    ELSE Returns(next_fragment(self), OkUsize(Len(buf)), buf)

\* Write::write, Send; the buffer afterwards is the slice that was compared.
write_Send(self, data, buf) ==
    LET cut == IF Len(buf) > Len(data) THEN SubSeq(buf, 1, Len(data)) ELSE buf
    IN  IF cut # data
        THEN Panics(self, cut)
        ELSE Returns(next_fragment(self), OkUsize(Len(cut)), cut)

\* Write::write, SendAll; in the Ordering::Less arm all_index is advanced
\* before the comparison and once more after it.
write_SendAll(self, full_data, buf) ==
    IF self.all_index > Len(full_data)
    THEN Panics(self, buf)
    ELSE LET rest == SubSeq(full_data, self.all_index + 1, Len(full_data))
             less == Len(buf) < Len(rest)
             cut == IF Len(buf) > Len(rest)
                    THEN SubSeq(buf, 1, Len(rest)) ELSE buf
             data == IF less THEN SubSeq(rest, 1, Len(buf)) ELSE rest
             first == IF less
                      THEN [self EXCEPT !.all_index = @ + Len(buf)]
                      ELSE self
             second == [first EXCEPT !.all_index = @ + Len(cut)]
         IN  IF cut # data
             THEN Panics(first, cut)
             ELSE Returns(IF second.all_index = Len(full_data)
                          THEN next_fragment(second) ELSE second,
                          OkUsize(Len(cut)), cut)

\* Write::write
AssertStream_write(self, buf) ==
    LET rule == current_rule(self)
    IN  CASE rule.kind = "Send" -> write_Send(self, rule.data, buf)
          [] rule.kind = "SendAll" -> write_SendAll(self, rule.data, buf)
          [] rule.kind \in {"Recv", "RecvAll"} -> Panics(self, buf)
          [] rule.kind = "SendClose" -> Panics(self, buf)
          [] rule.kind = "RecvClose" -> Panics(self, buf)
          [] rule.kind = "None" -> Panics(self, buf)

\* AsyncWrite::poll_write: Poll::Ready(self.write(buf))
AssertStream_poll_write(self, buf) == AssertStream_write(self, buf)

\* poll_shutdown that succeeds under every rule.
AssertStream_poll_shutdown_always(self) ==
    Returns(self, OkUnit, << >>)

\* AsyncWrite::poll_shutdown
AssertStream_poll_shutdown(self) ==
    IF current_rule(self).kind = "SendClose"
    THEN Returns(self, OkUnit, << >>)
    ELSE Panics(self, << >>)

(***************************************************************************)
\* The lengths tried: all small ones and the boundaries of the octet counts.
LengthInputs ==
    { l \in (0..MaxLength) \cup {32767, 32768, 65535, 65536, 65537,
                                 16777215, 16777216, 2147483647} :
        BitLength(l) <= usize_BITS }

\* The tag numbers and arcs tried: all small ones and the boundaries of the
\* digit counts.
NumberInputs ==
    (0..MaxNumber) \cup {16383, 16384, 2097151, 2097152,
                         268435455, 268435456, 2147483647}

\* The integers tried: all small ones and the boundaries of the octet counts.
IntegerInputs ==
    ((-MaxInteger)..MaxInteger)
    \cup {-8388609, -8388608, -65537, -65536, -65535, -32769, -32768, -32767,
          32767, 32768, 65535, 65536, 8388607, 8388608,
          -2147483647, 2147483647}

\* The octets slices are made of.
SliceOctets == {0, 1, 127, 128, 254, 255}

RECURSIVE SeqsUpTo(_, _)
SeqsUpTo(S, n) ==
    IF n = 0 THEN {<< >>}
    ELSE LET shorter == SeqsUpTo(S, n - 1)
         IN  shorter \cup {Append(s, x) : s \in {t \in shorter : Len(t) = n - 1},
                                          x \in S}

SliceInputs == SeqsUpTo(SliceOctets, MaxSlice)

\* The arcs object identifiers are made of.
ArcInputs == {0, 1, 2, 39, 127, 128, 16384}

ArcLists == SeqsUpTo(ArcInputs, MaxArcs)

\* n octets, all different from their neighbours.
Fill(n) == [i \in 1..n |-> (i * 3) % 256]

\* Recipes producing raw octets, the content of strings.
ContentRecipes ==
    {empty, literal(<<171>>), literal(<<1, 2>>),
     tuple(<<literal(<<1>>), literal(<<2, 3>>)>>),
     iter(<<literal(<<4>>), empty, literal(<<5>>)>>),
     literal(Fill(126)), literal(Fill(127)), literal(Fill(128)),
     literal(Fill(255))}

SmallContentRecipes == {empty, literal(<<171>>), literal(<<1, 2>>)}

TimeInputs ==
    {[year |-> 2049, month |-> 12, day |-> 31,
      hour |-> 23, minute |-> 59, second |-> 59],
     [year |-> 2050, month |-> 1, day |-> 1,
      hour |-> 0, minute |-> 0, second |-> 0]}

\* The standard content types, each both a Recipe and a DerContent, with
\* primitive content.
StandardRecipes ==
    {boolean(TRUE), boolean(FALSE), null,
     integer("u8", 0), integer("u8", 128), integer("i8", -1),
     integer("i16", -129), integer("i32", -2), integer("u32", 65536),
     integer_of_slice(<<0, 128>>), integer_slice(<<255, 128>>),
     oid(<<1, 2, 840>>), oid(<<2, 5, 4, 3>>)}
    \cup {octetstring(c) : c \in ContentRecipes}
    \cup {printable_string(c) : c \in SmallContentRecipes}
    \cup {ia5_string(c) : c \in SmallContentRecipes}
    \cup {bitstring(u, c) : u \in {0, 7}, c \in SmallContentRecipes}
    \cup {utc_time(t) : t \in TimeInputs}
    \cup {generalized_time(t) : t \in TimeInputs}

\* The tag numbers values are given.
TagNumbers == {0, 1, 30, 31, 127, 128}

\* Complete values over the standard content.
InnerValues ==
    {value(Tag_new(c, n), r) :
        c \in {"Universal", "Context"}, n \in {2, 31},
        r \in {boolean(TRUE), null, integer("i16", -129),
               octetstring(literal(Fill(127))), constructed(boolean(FALSE)),
               simple(literal(<<1, 2>>))}}

\* Everything given to value() as its content.
ValueContents ==
    StandardRecipes
    \cup {constructed(r) : r \in StandardRecipes \cup ContentRecipes}
    \cup {simple(r) : r \in ContentRecipes}
    \cup InnerValues
    \cup {oid(<< >>), oid(<<1>>), constructed(oid(<<1>>)),
          universal(6, oid(<<1>>))}

\* The items of sequences and sets.
Leaves == {boolean(TRUE), null, integer("u8", 128), literal(Fill(125))}

SmallLeaves == {boolean(FALSE), literal(Fill(126))}

RECURSIVE Nested(_)
Nested(d) ==
    IF d = 0 THEN Leaves
    ELSE LET inner == Nested(d - 1)
         IN  inner
             \cup {sequence(iter(<<a>>)) : a \in inner}
             \cup {set(tuple(<<a, b>>)) : a \in inner, b \in SmallLeaves}

ItemLists ==
    {<<a>> : a \in Nested(MaxDepth)}
    \cup {<<a, b>> : a \in Nested(MaxDepth), b \in SmallLeaves}
    \cup {[i \in 1..n |-> IF i % 2 = 1 THEN boolean(TRUE) ELSE null] :
             n \in 0..MaxItems}

\* The recipes holding the items in order: a tuple has two to six members.
Containers(items) ==
    {iter(items)}
    \cup (IF Len(items) \in 2..6 THEN {tuple(items)} ELSE {})
    \cup (IF Len(items) = 1 THEN {items[1]} ELSE {})
    \cup (IF Len(items) = 0 THEN {empty} ELSE {})

(***************************************************************************)
(* The calls.  Each starts from a fresh Fragment (Fragment::new()).        *)
(***************************************************************************)
\* The characters hex strings are made of: 0 1 a F, space, line feed, z.
HexChars == {48, 49, 97, 70, 32, 10, 122}

\* The strings hex is given; among them "ab1", "zz", "0a 1F", a string with
\* a vertical tab and one with a no-break space.
HexInputs ==
    SeqsUpTo(HexChars, MaxHexLen)
    \cup {<<ch, ch>> : ch \in 0..MaxChar}
    \cup {<<97, 98, 49>>, <<122, 122>>, <<48, 97, 32, 49, 70>>,
          <<48, 11, 48>>, <<48, 48, 160>>}

\* The recipes that are assembled more than once: without and with exec.
RepeatedRecipes ==
    {empty, literal(<<1, 2>>), Hex(<<48, 97, 32, 49, 70>>),
     null, integer("i16", -129), oid(<<1, 2, 840>>),
     tuple(<<literal(<<7>>), boolean(TRUE)>>),
     iter(<<integer("u8", 128), null>>),
     octetstring(Hex(<<70, 70>>)),
     sequence(iter(<<integer("u8", 1), octetstring(literal(<<9>>))>>)),
     set(tuple(<<sequence(iter(<<null>>)), utc_time(CHOOSE t \in TimeInputs : t.year = 2049)>>)),
     context(0, constructed(sequence(tuple(<<boolean(FALSE)>>)))),
     context(1, integer("u8", 5)),
     exec("push_len"), exec("push_calls"),
     tuple(<<literal(<<7>>), exec("push_len")>>),
     iter(<<exec("push_calls"), null>>),
     sequence(tuple(<<exec("push_calls"), exec("push_len")>>)),
     octetstring(exec("push_len"))}

\* What a target holds before a recipe is assembled onto it.
Prefixes == {<< >>, <<0>>, <<48, 3, 2, 1, 5>>}

Init ==
    /\ usize_BITS \in {16, 32, 64}
    /\ op = "new"
    /\ arg = [none |-> TRUE]
    /\ target = << >>
    /\ panicked = FALSE
    /\ stream = [rules |-> << >>, rule_index |-> 0, all_index |-> 0]
    /\ result = [kind |-> "None"]
    /\ progress = << >>

CallAssembleLength ==
    /\ op = "new"
    /\ \E l \in LengthInputs :
        LET r == assemble_length(l)
        IN  /\ op' = "assemble_length"
            /\ arg' = [length |-> l]
            /\ target' = r.out
            /\ panicked' = ~r.ok
    /\ UNCHANGED <<usize_BITS, stream, result, progress>>

CallAssembleInteger ==
    /\ op = "new"
    /\ \E ty \in UnsignedTypes \cup SignedTypes :
        \E v \in {x \in IntegerInputs : InType(ty, x)} :
            LET r == assemble_integer(ty, v)
            IN  /\ op' = "assemble_integer"
                /\ arg' = [ty |-> ty, value |-> v]
                /\ target' = r.out
                /\ panicked' = ~r.ok
    /\ UNCHANGED <<usize_BITS, stream, result, progress>>

CallAssembleSlice ==
    /\ op = "new"
    /\ \E s \in SliceInputs :
        LET r == assemble_signed_slice(s)
        IN  /\ op' = "assemble_signed_slice"
            /\ arg' = [slice |-> s]
            /\ target' = r.out
            /\ panicked' = ~r.ok
    /\ UNCHANGED <<usize_BITS, stream, result, progress>>

CallAssembleBase7 ==
    /\ op = "new"
    /\ \E n \in NumberInputs :
        LET r == assemble_base_7(n)
        IN  /\ op' = "assemble_base_7"
            /\ arg' = [number |-> n]
            /\ target' = r.out
            /\ panicked' = ~r.ok
    /\ UNCHANGED <<usize_BITS, stream, result, progress>>

CallTagAssemble ==
    /\ op = "new"
    /\ \E c \in Classes, b \in BOOLEAN, n \in NumberInputs :
        LET r == Tag_assemble(Tag_new(c, n), b)
        IN  /\ op' = "Tag_assemble"
            /\ arg' = [tag |-> Tag_new(c, n), constructed |-> b]
            /\ target' = r.out
            /\ panicked' = ~r.ok
    /\ UNCHANGED <<usize_BITS, stream, result, progress>>

ToFragmentStandard ==
    /\ op = "new"
    /\ \E recipe \in StandardRecipes :
        LET r == to_fragment(recipe)
        IN  /\ op' = "standard"
            /\ arg' = [recipe |-> recipe]
            /\ target' = r.out
            /\ panicked' = ~r.ok
    /\ UNCHANGED <<usize_BITS, stream, result, progress>>

ToFragmentValue ==
    /\ op = "new"
    /\ \E c \in Classes, n \in TagNumbers, content \in ValueContents :
        LET recipe == CASE c = "Universal" -> universal(n, content)
                        [] c = "Application" -> application(n, content)
                        [] c = "Context" -> context(n, content)
                        [] c = "Private" -> private(n, content)
            r == to_fragment(recipe)
        IN  /\ op' = "value"
            /\ arg' = [recipe |-> recipe]
            /\ target' = r.out
            /\ panicked' = ~r.ok
    /\ UNCHANGED <<usize_BITS, stream, result, progress>>

ToFragmentSequence ==
    /\ op = "new"
    /\ \E items \in ItemLists :
        \E held \in Containers(items) :
            LET recipe == sequence(held)
                r == to_fragment(recipe)
            IN  /\ op' = "sequence"
                /\ arg' = [recipe |-> recipe, items |-> items]
                /\ target' = r.out
                /\ panicked' = ~r.ok
    /\ UNCHANGED <<usize_BITS, stream, result, progress>>

ToFragmentSet ==
    /\ op = "new"
    /\ \E items \in ItemLists :
        \E held \in Containers(items) :
            LET recipe == set(held)
                r == to_fragment(recipe)
            IN  /\ op' = "set"
                /\ arg' = [recipe |-> recipe, items |-> items]
                /\ target' = r.out
                /\ panicked' = ~r.ok
    /\ UNCHANGED <<usize_BITS, stream, result, progress>>

ToFragmentBitstring ==
    /\ op = "new"
    /\ \E unused \in 0..255, content \in ContentRecipes :
        LET recipe == bitstring(unused, content)
            r == to_fragment(recipe)
        IN  /\ op' = "bitstring"
            /\ arg' = [recipe |-> recipe, unused |-> unused,
                       content |-> content]
            /\ target' = r.out
            /\ panicked' = ~r.ok
    /\ UNCHANGED <<usize_BITS, stream, result, progress>>

ToFragmentOid ==
    /\ op = "new"
    /\ \E items \in ArcLists :
        LET recipe == oid(items)
            r == to_fragment(recipe)
        IN  /\ op' = "oid"
            /\ arg' = [recipe |-> recipe, items |-> items]
            /\ target' = r.out
            /\ panicked' = ~r.ok
    /\ UNCHANGED <<usize_BITS, stream, result, progress>>

ToFragmentInteger ==
    /\ op = "new"
    /\ \E ty \in UnsignedTypes \cup SignedTypes :
        \E v \in {x \in IntegerInputs : InType(ty, x)} :
            LET recipe == integer(ty, v)
                r == to_fragment(recipe)
            IN  /\ op' = "integer"
                /\ arg' = [recipe |-> recipe, ty |-> ty, value |-> v]
                /\ target' = r.out
                /\ panicked' = ~r.ok
    /\ UNCHANGED <<usize_BITS, stream, result, progress>>

CallX509Time ==
    /\ op = "new"
    /\ \E time \in TimeInputs :
        LET recipe == x509_time(time)
            r == to_fragment(recipe)
        IN  /\ op' = "x509_time"
            /\ arg' = [recipe |-> recipe, time |-> time]
            /\ target' = r.out
            /\ panicked' = ~r.ok
    /\ UNCHANGED <<usize_BITS, stream, result, progress>>

\* hex(hex): the string is checked when the recipe is made.
ConstructHex ==
    /\ op = "new"
    /\ \E hex \in HexInputs :
        LET r == Hex_check(hex)
        IN  /\ op' = "hex"
            /\ arg' = [hex |-> hex]
            /\ target' = << >>
            /\ panicked' = ~r.ok
    /\ UNCHANGED <<usize_BITS, stream, result, progress>>

\* hex(hex).to_fragment(), once hex(hex) has returned the recipe.
ToFragmentHex ==
    /\ op = "hex"
    /\ ~panicked
    /\ LET r == to_fragment(Hex(arg.hex))
       IN  /\ op' = "hex_assemble"
           /\ arg' = arg
           /\ target' = r.out
           /\ panicked' = ~r.ok
    /\ UNCHANGED <<usize_BITS, stream, result, progress>>

\* A recipe is made and kept.
MakeRecipe ==
    /\ op = "new"
    /\ \E recipe \in RepeatedRecipes :
        /\ op' = "recipe"
        /\ arg' = [made |-> recipe, recipe |-> recipe, runs |-> << >>]
        /\ target' = << >>
        /\ panicked' = FALSE
    /\ UNCHANGED <<usize_BITS, stream, result, progress>>

\* recipe.assemble(&mut target) on a target that holds a prefix.
Assemble ==
    /\ op = "recipe"
    /\ ~panicked
    /\ Len(arg.runs) < MaxRuns
    /\ \E prefix \in Prefixes :
        LET r == assemble(arg.recipe, prefix)
        IN  /\ op' = op
            /\ arg' = [arg EXCEPT
                          !.recipe = IF r.ok THEN after_assemble(@) ELSE @,
                          !.runs = Append(@, [call |-> "assemble",
                                              prefix |-> prefix,
                                              out |-> r.out])]
            /\ target' = r.out
            /\ panicked' = ~r.ok
    /\ UNCHANGED <<usize_BITS, stream, result, progress>>

\* recipe.to_fragment()
ToFragment ==
    /\ op = "recipe"
    /\ ~panicked
    /\ Len(arg.runs) < MaxRuns
    /\ LET r == to_fragment(arg.recipe)
       IN  /\ op' = op
           /\ arg' = [arg EXCEPT
                         !.recipe = IF r.ok THEN after_assemble(@) ELSE @,
                         !.runs = Append(@, [call |-> "to_fragment",
                                             prefix |-> << >>,
                                             out |-> r.out])]
           /\ target' = r.out
           /\ panicked' = ~r.ok
    /\ UNCHANGED <<usize_BITS, stream, result, progress>>

Next ==
    \/ CallAssembleLength
    \/ CallAssembleInteger
    \/ CallAssembleSlice
    \/ CallAssembleBase7
    \/ CallTagAssemble
    \/ ToFragmentStandard
    \/ ToFragmentValue
    \/ ToFragmentSequence
    \/ ToFragmentSet
    \/ ToFragmentBitstring
    \/ ToFragmentOid
    \/ ToFragmentInteger
    \/ CallX509Time
    \/ ConstructHex
    \/ ToFragmentHex
    \/ MakeRecipe
    \/ Assemble
    \/ ToFragment

Spec == Init /\ [][Next]_vars

(***************************************************************************)
(* A stream is made from a list of rules and then read from, written to    *)
(* and shut down, until a call panics.                                     *)
(***************************************************************************)
\* The octets written to streams.
StreamOctets == {1, 2}

\* The data of a rule: 1 2 1 2 ... of n octets.
RuleData(n) == [i \in 1..n |-> 2 - (i % 2)]

\* The rules of streams: with the longest data and with one octet.
RuleInputs ==
    UNION {{Send(data), SendAll(data), Recv(data), RecvAll(data)} :
               data \in {RuleData(MaxData), <<2>>}}
    \cup {SendClose, RecvClose}

RuleLists == SeqsUpTo(RuleInputs, MaxRules)

\* The buffers written and, all zero, the buffers read into.
WriteBuffers == SeqsUpTo(StreamOctets, MaxBuf)
ReadBuffers == {[i \in 1..n |-> 0] : n \in 0..MaxBuf}

\* What is known of the stream before a call.
Before == [rule_index |-> stream.rule_index, all_index |-> stream.all_index,
           progress |-> progress]

\* The octets under the current rule after a call that moved some.
Progress(after, moved) ==
    IF after.rule_index # stream.rule_index THEN << >>
    ELSE progress \o moved

InitStream ==
    /\ usize_BITS = 64
    /\ op = "AssertStream_new"
    /\ arg = [none |-> TRUE]
    /\ target = << >>
    /\ panicked = FALSE
    /\ \E rules \in RuleLists : stream = AssertStream_new(rules)
    /\ result = [kind |-> "None"]
    /\ progress = << >>

Read ==
    /\ ~panicked
    /\ \E buf \in ReadBuffers :
        LET r == AssertStream_read(stream, buf)
        IN  /\ op' = "read"
            /\ arg' = [buf |-> buf, before |-> Before]
            /\ stream' = r.self
            /\ result' = [ret |-> r.ret, buf |-> r.buf]
            /\ panicked' = ~r.ok
            /\ progress' = IF r.ok /\ r.ret.kind = "Ok"
                           THEN Progress(r.self, SubSeq(r.buf, 1, r.ret.n))
                           ELSE progress
    /\ UNCHANGED <<usize_BITS, target>>

PollRead ==
    /\ ~panicked
    /\ \E buf \in ReadBuffers :
        LET r == AssertStream_poll_read(stream, buf)
        IN  /\ op' = "poll_read"
            /\ arg' = [buf |-> buf, before |-> Before]
            /\ stream' = r.self
            /\ result' = [ret |-> r.ret, buf |-> r.buf]
            /\ panicked' = ~r.ok
            /\ progress' = IF r.ok /\ r.ret.kind = "Ok"
                           THEN Progress(r.self, r.buf)
                           ELSE progress
    /\ UNCHANGED <<usize_BITS, target>>

Write ==
    /\ ~panicked
    /\ \E buf \in WriteBuffers :
        LET r == AssertStream_write(stream, buf)
        IN  /\ op' = "write"
            /\ arg' = [buf |-> buf, before |-> Before]
            /\ stream' = r.self
            /\ result' = [ret |-> r.ret, buf |-> r.buf]
            /\ panicked' = ~r.ok
            /\ progress' = IF r.ok
                           THEN Progress(r.self, SubSeq(buf, 1, r.ret.n))
                           ELSE progress
    /\ UNCHANGED <<usize_BITS, target>>

PollWrite ==
    /\ ~panicked
    /\ \E buf \in WriteBuffers :
        LET r == AssertStream_poll_write(stream, buf)
        IN  /\ op' = "poll_write"
            /\ arg' = [buf |-> buf, before |-> Before]
            /\ stream' = r.self
            /\ result' = [ret |-> r.ret, buf |-> r.buf]
            /\ panicked' = ~r.ok
            /\ progress' = IF r.ok
                           THEN Progress(r.self, SubSeq(buf, 1, r.ret.n))
                           ELSE progress
    /\ UNCHANGED <<usize_BITS, target>>

PollShutdown ==
    /\ ~panicked
    /\ LET r == AssertStream_poll_shutdown(stream)
       IN  /\ op' = "poll_shutdown"
           /\ arg' = [buf |-> << >>, before |-> Before]
           /\ stream' = r.self
           /\ result' = [ret |-> r.ret, buf |-> r.buf]
           /\ panicked' = ~r.ok
           /\ progress' = progress
    /\ UNCHANGED <<usize_BITS, target>>

NextStream ==
    \/ Read
    \/ PollRead
    \/ Write
    \/ PollWrite
    \/ PollShutdown

SpecStream == InitStream /\ [][NextStream]_vars

(***************************************************************************)
(* A reader of X.690 encodings, used to state what the output must be.     *)
(***************************************************************************)
\* The value of octets read as an unsigned big-endian number.
RECURSIVE Unsigned(_)
Unsigned(octets) ==
    IF Len(octets) = 0 THEN 0
    ELSE Unsigned(SubSeq(octets, 1, Len(octets) - 1)) * 256
         + octets[Len(octets)]

\* The value of a non-empty sequence of octets read as two's complement.
RECURSIVE TwosComplement(_)
TwosComplement(octets) ==
    IF Len(octets) = 1
    THEN (IF octets[1] >= 128 THEN octets[1] - 256 ELSE octets[1])
    ELSE TwosComplement(SubSeq(octets, 1, Len(octets) - 1)) * 256
         + octets[Len(octets)]

\* Reads a definite-form length field off the front of octets.
DecodeLength(octets) ==
    IF Len(octets) = 0 \/ octets[1] = 128
    THEN [ok |-> FALSE, value |-> 0, rest |-> << >>]
    ELSE IF octets[1] < 128
    THEN [ok |-> TRUE, value |-> octets[1], rest |-> Tail(octets)]
    ELSE LET k == octets[1] - 128
         IN  IF Len(octets) < 1 + k
             THEN [ok |-> FALSE, value |-> 0, rest |-> << >>]
             ELSE [ok |-> TRUE,
                   value |-> Unsigned(SubSeq(octets, 2, 1 + k)),
                   rest |-> SubSeq(octets, 2 + k, Len(octets))]

\* The number of octets of the first base-128 group sequence of octets: up
\* to and including the first octet with a clear high bit; 0 if there is none.
RECURSIVE GroupLength(_, _)
GroupLength(octets, i) ==
    IF i > Len(octets) THEN 0
    ELSE IF octets[i] < 128 THEN i
    ELSE GroupLength(octets, i + 1)

RECURSIVE GroupsValue(_)
GroupsValue(groups) ==
    IF Len(groups) = 0 THEN 0
    ELSE GroupsValue(SubSeq(groups, 1, Len(groups) - 1)) * 128
         + (groups[Len(groups)] % 128)

\* Reads one base-128 number off the front of octets.
DecodeBase128(octets) ==
    LET n == GroupLength(octets, 1)
    IN  IF n = 0 \/ octets[1] = 128
        THEN [ok |-> FALSE, value |-> 0, rest |-> << >>]
        ELSE [ok |-> TRUE,
              value |-> GroupsValue(SubSeq(octets, 1, n)),
              rest |-> SubSeq(octets, n + 1, Len(octets))]

\* Reads the identifier octets off the front of octets.
DecodeIdentifier(octets) ==
    IF Len(octets) = 0
    THEN [ok |-> FALSE, class |-> "", constructed |-> FALSE, number |-> 0,
          rest |-> << >>]
    ELSE LET first == octets[1]
             cls == CASE first \div 64 = 0 -> "Universal"
                        [] first \div 64 = 1 -> "Application"
                        [] first \div 64 = 2 -> "Context"
                        [] first \div 64 = 3 -> "Private"
             bit6 == (first \div 32) % 2 = 1
             long == DecodeBase128(Tail(octets))
         IN  IF first % 32 < 31
             THEN [ok |-> TRUE, class |-> cls, constructed |-> bit6,
                   number |-> first % 32, rest |-> Tail(octets)]
             ELSE [ok |-> long.ok /\ long.value >= 31, class |-> cls,
                   constructed |-> bit6, number |-> long.value,
                   rest |-> long.rest]

\* The minimal definite-form length field of X.690 10.1.
RECURSIVE MinimalOctets(_)
MinimalOctets(n) == IF n < 256 THEN <<n>> ELSE Append(MinimalOctets(n \div 256), n % 256)

MinimalLengthField(len) ==
    IF len < 128 THEN <<len>>
    ELSE <<128 + Len(MinimalOctets(len))>> \o MinimalOctets(len)

\* The base-128 encoding of X.690 8.19.2.
RECURSIVE Base128Leading(_)
Base128Leading(n) ==
    IF n = 0 THEN << >>
    ELSE Append(Base128Leading(n \div 128), 128 + (n % 128))

Base128(n) == Append(Base128Leading(n \div 128), n % 128)

\* The octets the items produce, one after the other.
RECURSIVE ItemsOutput(_)
ItemsOutput(items) ==
    IF Len(items) = 0 THEN << >>
    ELSE to_fragment(Head(items)).out \o ItemsOutput(Tail(items))

(***************************************************************************)
(* The claims.                                                             *)
(***************************************************************************)

\* C1: the length field assemble_length emits for a length L is the single
\* octet L if L < 128, and otherwise the octet 0x80|k followed by the k
\* octets of L in big-endian order, k being minimal (no leading zero octet).
C1_LengthFieldMinimal ==
    (op = "assemble_length" /\ ~panicked)
        => target = MinimalLengthField(arg.length)

\* C2: the content octets the signed path emits for an i16, i32, i64, i128
\* or isize, or for a raw slice whose first octet has its sign bit set, are
\* at least one octet and read as two's complement give the input's value.
C2_SignedValuePreserved ==
    /\ (op = "assemble_integer" /\ arg.ty \in SignedTypes \ {"i8"})
           => /\ ~panicked
              /\ Len(target) >= 1
              /\ TwosComplement(target) = arg.value
    /\ (op = "assemble_signed_slice" /\ Len(arg.slice) > 0
                                     /\ arg.slice[1] >= 128)
           => /\ ~panicked
              /\ Len(target) >= 1
              /\ TwosComplement(target) = TwosComplement(arg.slice)

\* C3: bitstring(unused, content) assembles without error to tag 03, the
\* length of 1 + |B|, the octet unused and then the octets B that content
\* produces, and nothing else.
C3_BitstringContentVerbatim ==
    op = "bitstring"
        => LET B == to_fragment(arg.content).out
               len == DecodeLength(Tail(target))
           IN  /\ ~panicked
               /\ target[1] = 3
               /\ len.ok
               /\ len.value = 1 + Len(B)
               /\ len.rest = <<arg.unused>> \o B

\* C4: a Value assembles to the identifier octets of its tag, with the
\* constructed bit set iff its content is classified constructed, then a
\* length field whose value is the number of octets of the content, then
\* those octets, and nothing else; the content is assembled apart first, so
\* a content that fails leaves the target as it was.
C4_ValueThreeParts ==
    (op \in {"value", "sequence", "set"})
        => LET tag == arg.recipe.tag
               content == assemble_content(arg.recipe.content, << >>)
               id == DecodeIdentifier(target)
               len == DecodeLength(id.rest)
           IN  IF ~content.ok
               THEN panicked /\ target = << >>
               ELSE /\ ~panicked
                    /\ id.ok
                    /\ id.class = tag.class
                    /\ id.number = tag.number
                    /\ id.constructed = is_constructed(arg.recipe.content)
                    /\ len.ok
                    /\ len.value = Len(content.out)
                    /\ len.rest = content.out

\* A Value with constructed content of 128 octets or more under a tag
\* number of 31 or more has been assembled.
C4_Witness ==
    /\ op = "value"
    /\ ~panicked
    /\ arg.recipe.tag.number >= 31
    /\ arg.recipe.content.kind = "ConstructedDerContent"
    /\ Len(assemble_content(arg.recipe.content, << >>).out) >= 128
    /\ Len(target) >= 128 + 5

\* C5: sequence(items) emits the octet 30 and set(items) the octet 31, then
\* a length field whose value is the number of octets the items produce,
\* then the items' outputs in the given order and nothing else, at every
\* level of nesting.
C5_SequenceOfItems ==
    (op \in {"sequence", "set"})
        => LET children == ItemsOutput(arg.items)
               len == DecodeLength(Tail(target))
           IN  /\ ~panicked
               /\ target[1] = (IF op = "sequence" THEN 48 ELSE 49)
               /\ len.ok
               /\ len.value = Len(children)
               /\ len.rest = children

\* A set of two items, the first a sequence holding a set, has been
\* assembled.
C5_Witness ==
    /\ op = "set"
    /\ Len(arg.items) = 2
    /\ arg.items[1] = sequence(iter(<<set(tuple(<<null, boolean(FALSE)>>))>>))
    /\ target = <<49, 12, 48, 7, 49, 5, 5, 0, 1, 1, 0, 1, 1, 0>>

C8_TagIdentifierOctets ==
    op = "Tag_assemble"
        => LET first == target[1]
               rest == Tail(target)
               n == arg.tag.number
           IN  /\ ~panicked
               /\ first \div 64 = (CASE arg.tag.class = "Universal" -> 0
                                     [] arg.tag.class = "Application" -> 1
                                     [] arg.tag.class = "Context" -> 2
                                     [] arg.tag.class = "Private" -> 3)
               /\ ((first \div 32) % 2 = 1) = arg.constructed
               /\ IF n < 31
                  THEN first % 32 = n /\ rest = << >>
                  ELSE /\ first % 32 = 31
                       /\ Len(rest) >= 1
                       /\ \A i \in 1..(Len(rest) - 1) : rest[i] >= 128
                       /\ rest[Len(rest)] < 128
                       /\ rest[1] # 128
                       /\ GroupsValue(rest) = n

\* The tag Private 31, constructed, has been assembled to FF 1F.
C8_Witness ==
    /\ op = "Tag_assemble"
    /\ arg.tag = Tag_new("Private", 31)
    /\ arg.constructed
    /\ target = <<255, 31>>

\* Whether octets are one well-formed base-128 number that reads back as n.
RoundTrips(octets, n) ==
    /\ Len(octets) >= 1
    /\ \A i \in 1..(Len(octets) - 1) : octets[i] >= 128
    /\ octets[Len(octets)] < 128
    /\ octets[1] # 128
    /\ DecodeBase128(octets) = [ok |-> TRUE, value |-> n, rest |-> << >>]

\* The numbers read off octets one after the other; -1 where none can be read.
RECURSIVE DecodeArcs(_)
DecodeArcs(octets) ==
    IF Len(octets) = 0 THEN << >>
    ELSE LET d == DecodeBase128(octets)
         IN  IF d.ok THEN <<d.value>> \o DecodeArcs(d.rest) ELSE <<-1>>

\* C9: the octets of assemble_base_7(n) are not empty, have the high bit set
\* on all but the last, do not start with 0x80, and are read back as n by a
\* base-128 decoder, for n a tag number and for n an arc of an OID.
C9_Base128RoundTrip ==
    /\ op = "assemble_base_7" => ~panicked /\ RoundTrips(target, arg.number)
    /\ (op = "Tag_assemble" /\ arg.tag.number >= 31)
           => RoundTrips(Tail(target), arg.tag.number)
    /\ (op = "oid" /\ ~panicked)
           => DecodeArcs(DecodeLength(Tail(target)).rest)
                  = <<(arg.items[1] * 40) + arg.items[2]>>
                    \o SubSeq(arg.items, 3, Len(arg.items))

\* 16384 has been encoded in three groups.
C9_Witness ==
    /\ op = "assemble_base_7"
    /\ arg.number = 16384
    /\ target = <<129, 128, 0>>

\* The base-128 encodings of the numbers, one after the other.
RECURSIVE Base128All(_)
Base128All(numbers) ==
    IF Len(numbers) = 0 THEN << >>
    ELSE Base128(Head(numbers)) \o Base128All(Tail(numbers))

StrippedOctets(v) == IF v = 0 THEN << >> ELSE MinimalOctets(v)

\* C11: the content emitted for an unsigned integer is its big-endian
\* representation without leading zero octets, with one octet 00 put in
\* front iff the first remaining octet has its high bit set or nothing
\* remains; so 0 gives the one octet 00 and the content reads, as two's
\* complement, as the input value.
C11_UnsignedContent ==
    (op = "assemble_integer" /\ arg.ty \in UnsignedTypes)
        => LET stripped == StrippedOctets(arg.value)
               sign == IF Len(stripped) = 0 \/ stripped[1] >= 128
                       THEN <<0>> ELSE << >>
           IN  /\ ~panicked
               /\ target = sign \o stripped
               /\ arg.value = 0 => target = <<0>>
               /\ TwosComplement(target) = arg.value

\* 65535 has been assembled from a u32 as 00 FF FF.
C11_Witness ==
    /\ op = "assemble_integer"
    /\ arg.ty = "u32"
    /\ arg.value = 65535
    /\ target = <<0, 255, 255>>

\* C12: the content emitted for any integer or integer slice has at least
\* one octet, and if it has two or more it starts neither with 00 followed by
\* an octet with a clear high bit nor with FF followed by an octet with its
\* high bit set.
C12_IntegerContentCanonical ==
    (op \in {"assemble_integer", "assemble_signed_slice"})
        => /\ ~panicked
           /\ Len(target) >= 1
           /\ Len(target) >= 2
                  => /\ ~(target[1] = 0 /\ target[2] < 128)
                     /\ ~(target[1] = 255 /\ target[2] >= 128)

\* C13: integer(v) assembles to the same octets whatever the fixed-width
\* type carrying v: 0 as u8, u32, i128 gives 02 01 00, -1 as i8, i32, i128
\* gives 02 01 FF, and -2 as i8, i32, i128 gives 02 01 FE.
C13_IntegerWidthIndependent ==
    /\ op = "integer"
           => /\ ~panicked
              /\ \A ty \in UnsignedTypes \cup SignedTypes :
                     InType(ty, arg.value)
                         => to_fragment(integer(ty, arg.value)).out = target
              /\ arg.value = 0 => target = <<2, 1, 0>>
              /\ arg.value = -1 => target = <<2, 1, 255>>
              /\ arg.value = -2 => target = <<2, 1, 254>>
    /\ op = "assemble_integer"
           => \A ty \in UnsignedTypes \cup SignedTypes :
                  InType(ty, arg.value)
                      => assemble_integer(ty, arg.value).out = target

\* 200, a value of eleven of the twelve types, has been assembled from a u8.
C13_Witness ==
    /\ op = "integer"
    /\ arg.ty = "u8"
    /\ arg.value = 200
    /\ target = <<2, 2, 0, 200>>
    /\ to_fragment(integer("i128", 200)).out = target

\* C14: utc_time(t) assembles a value whose identifier octet is 17 hex
\* (universal 23) and generalized_time(t) one whose identifier octet is 18
\* hex (universal 24), so the two never start with the same octet.
C14_TimeIdentifiers ==
    (op = "standard" /\ arg.recipe.kind \in {"UtcTime", "GeneralizedTime"})
        => /\ ~panicked
           /\ Len(target) >= 1
           /\ arg.recipe.kind = "UtcTime" => target[1] = 23
           /\ arg.recipe.kind = "GeneralizedTime" => target[1] = 24
           /\ target[1] # to_fragment(IF arg.recipe.kind = "UtcTime"
                                      THEN generalized_time(arg.recipe.time)
                                      ELSE utc_time(arg.recipe.time)).out[1]

\* C15: x509_time(t) is a GeneralizedTime value (identifier 18 hex, four-digit
\* year) when the year of t is 2050 or later and a UTCTime value (identifier
\* 17 hex, two-digit year) when it is earlier.
C15_X509TimeChoice ==
    op = "x509_time"
        => /\ ~panicked
           /\ arg.time.year >= 2050
                  => target = <<24, 15>>
                              \o assemble_generalized_time(arg.time).out
           /\ arg.time.year < 2050
                  => target = <<23, 13>> \o assemble_utc_time(arg.time).out

\* The hexadecimal digits by value, in lower and in upper case.
LowerDigits ==
    <<48, 49, 50, 51, 52, 53, 54, 55, 56, 57, 97, 98, 99, 100, 101, 102>>
UpperDigits ==
    <<48, 49, 50, 51, 52, 53, 54, 55, 56, 57, 65, 66, 67, 68, 69, 70>>
HexDigitChars ==
    {LowerDigits[i] : i \in 1..16} \cup {UpperDigits[i] : i \in 1..16}
DigitValue(ch) ==
    CHOOSE v \in 0..15 : LowerDigits[v + 1] = ch \/ UpperDigits[v + 1] = ch

\* The white space characters: space, tab, line feed, form feed, carriage
\* return.
WhitespaceChars == {32, 9, 10, 12, 13}

\* The values of the hexadecimal digits of a string, in order of appearance.
RECURSIVE HexDigitValues(_)
HexDigitValues(str) ==
    IF Len(str) = 0 THEN << >>
    ELSE (IF Head(str) \in HexDigitChars
          THEN <<DigitValue(Head(str))>> ELSE << >>)
         \o HexDigitValues(Tail(str))

\* C16: hex(s) fails when the recipe is made, before anything is assembled,
\* iff s holds a character that is neither white space nor a hexadecimal
\* digit or the number of its hexadecimal digits is odd; "ab1" and "zz" are
\* rejected, "0a 1F" and the empty string are accepted.
C16_HexConstruction ==
    /\ op = "hex"
           => /\ panicked
                  <=> \/ \E i \in 1..Len(arg.hex) :
                             arg.hex[i] \notin WhitespaceChars \cup HexDigitChars
                      \/ Len(HexDigitValues(arg.hex)) % 2 = 1
              /\ target = << >>
              /\ arg.hex \in {<<97, 98, 49>>, <<122, 122>>} => panicked
              /\ arg.hex \in {<<48, 97, 32, 49, 70>>, << >>, <<48, 32, 10, 97>>}
                     => ~panicked
    /\ op = "hex_assemble" => Hex_check(arg.hex).ok

\* "0a 1F" has been accepted.
C16_Witness ==
    /\ op = "hex"
    /\ arg.hex = <<48, 97, 32, 49, 70>>
    /\ ~panicked

\* C17: assembling an accepted hex string of 2k digits never fails and
\* yields k octets, the i-th being 16 times the (2i-1)-th digit plus the
\* 2i-th, white space skipped and case ignored; "0a 1F" gives 0A 1F.
C17_HexOctets ==
    op = "hex_assemble"
        => LET d == HexDigitValues(arg.hex)
               k == Len(d) \div 2
           IN  /\ ~panicked
               /\ Len(d) = 2 * k
               /\ Len(target) = k
               /\ \A i \in 1..k : target[i] = 16 * d[2 * i - 1] + d[2 * i]
               /\ arg.hex = <<48, 97, 32, 49, 70>> => target = <<10, 31>>

\* "0a 1F" has been assembled to 0A 1F.
C17_Witness ==
    /\ op = "hex_assemble"
    /\ arg.hex = <<48, 97, 32, 49, 70>>
    /\ target = <<10, 31>>

\* Whether a recipe tree holds no exec node.
RECURSIVE ExecFree(_)
ExecFree(recipe) ==
    CASE recipe.kind = "Exec" -> FALSE
      [] recipe.kind \in {"Tuple", "Iter"} ->
           \A i \in 1..Len(recipe.items) : ExecFree(recipe.items[i])
      [] recipe.kind \in {"Value", "StringValue", "ConstructedDerContent",
                          "SimpleDerContent"} ->
           ExecFree(recipe.content)
      [] OTHER -> TRUE

C19_AppendOnly ==
    (op = "recipe" /\ ExecFree(arg.made))
        => /\ \A i \in 1..Len(arg.runs) :
                  arg.runs[i].out
                      = arg.runs[i].prefix \o to_fragment(arg.made).out
           /\ Len(arg.runs) > 0 => target = arg.runs[Len(arg.runs)].out

\* A value with values nested in it has been assembled onto five octets.
C19_Witness ==
    /\ op = "recipe"
    /\ arg.made.kind = "Value"
    /\ ExecFree(arg.made)
    /\ Len(arg.runs) > 0
    /\ arg.runs[1].call = "assemble"
    /\ Len(arg.runs[1].prefix) = 5
    /\ Len(target) > 5 + 8
    /\ SubSeq(target, 1, 5) = arg.runs[1].prefix

\* C20: assembling a recipe the constructors accepted (exec aside) always
\* returns, whatever the arguments: an oid of no, one, two or more arcs, any
\* tag number, any integer or slice of octets.
C20_AssemblyTotal ==
    (\/ op \in {"standard", "value", "sequence", "set", "bitstring", "oid",
                "integer", "hex_assemble"}
     \/ op = "recipe" /\ ExecFree(arg.made))
        => ~panicked

(***************************************************************************)
(* AssertStream.                                                           *)
(***************************************************************************)
StreamCalls == {"read", "poll_read", "write", "poll_write", "poll_shutdown"}
Reads == {"read", "poll_read"}
Writes == {"write", "poll_write"}

\* The rule that was current when the last call was made.
RuleBefore ==
    IF op \in StreamCalls /\ arg.before.rule_index < Len(stream.rules)
    THEN stream.rules[arg.before.rule_index + 1]
    ELSE [kind |-> "None"]

\* Whether the last call moved the stream on by one rule, or left it.
Advanced ==
    /\ stream.rule_index = arg.before.rule_index + 1
    /\ stream.all_index = 0
Stayed == stream.rule_index = arg.before.rule_index

\* Whether a sequence starts with another.
StartsWith(seq, start) ==
    Len(seq) >= Len(start) /\ SubSeq(seq, 1, Len(start)) = start

\* The octets the last read handed over.
Delivered ==
    IF op = "read" THEN SubSeq(result.buf, 1, result.ret.n) ELSE result.buf

Min(a, b) == IF a < b THEN a ELSE b

\* C21: under SendAll(data) every write of the next non-empty chunk of data
\* is accepted and returns the chunk's length, and the stream moves to the
\* next rule exactly when the octets accepted so far are all of data.
C21_SendAllChunks ==
    (/\ op \in Writes
     /\ RuleBefore.kind = "SendAll"
     /\ Len(arg.buf) > 0
     /\ StartsWith(RuleBefore.data, arg.before.progress \o arg.buf))
        => /\ ~panicked
           /\ result.ret = OkUsize(Len(arg.buf))
           /\ IF Len(arg.before.progress) + Len(arg.buf) = Len(RuleBefore.data)
              THEN Advanced
              ELSE Stayed /\ progress = arg.before.progress \o arg.buf

\* C22: under RecvAll(data) every read into a non-empty buffer returns the
\* smaller of the buffer's size and the number of octets not yet handed
\* over, hands over the next octets of data, and moves the stream to the
\* next rule exactly when it hands over the last one.
C22_RecvAllReads ==
    (/\ op \in Reads
     /\ RuleBefore.kind = "RecvAll"
     /\ Len(arg.buf) > 0)
        => LET done == Len(arg.before.progress)
               n == Min(Len(arg.buf), Len(RuleBefore.data) - done)
           IN  /\ ~panicked
               /\ StartsWith(RuleBefore.data, arg.before.progress)
               /\ op = "read" => result.ret = OkUsize(n)
               /\ Delivered = SubSeq(RuleBefore.data, done + 1, done + n)
               /\ IF done + n = Len(RuleBefore.data)
                  THEN Advanced
                  ELSE Stayed /\ progress = arg.before.progress \o Delivered

\* 1 2 1 has been read in three reads of one octet, the last of which
\* moved the stream on.
C22_Witness ==
    /\ op = "read"
    /\ RuleBefore = RecvAll(<<1, 2, 1>>)
    /\ arg.before.progress = <<1, 2>>
    /\ Len(arg.buf) = 1
    /\ result.buf = <<1>>
    /\ stream.rule_index = arg.before.rule_index + 1

\* C23: under Send(data) a write succeeds iff the buffer starts with data;
\* it then returns the length of data, also for a longer buffer, and moves
\* the stream on by one rule; otherwise it panics.
C23_SendWrite ==
    (op \in Writes /\ RuleBefore.kind = "Send")
        => /\ ~panicked <=> StartsWith(arg.buf, RuleBefore.data)
           /\ ~panicked => /\ result.ret = OkUsize(Len(RuleBefore.data))
                           /\ Advanced
           /\ panicked => Stayed

\* A buffer longer than the data has been written under Send.
C23_Witness ==
    /\ op = "write"
    /\ RuleBefore = Send(<<2>>)
    /\ arg.buf = <<2, 1>>
    /\ result.ret = OkUsize(1)
    /\ ~panicked

\* C24: under Recv(data) a read into a buffer of at least the length of
\* data copies data to its start, returns the length of data and moves the
\* stream on by one rule; a read into a shorter buffer panics; a write
\* panics.
C24_RecvRead ==
    /\ (op \in Reads /\ RuleBefore.kind = "Recv")
           => IF Len(arg.buf) >= Len(RuleBefore.data)
              THEN /\ ~panicked
                   /\ op = "read"
                          => /\ result.ret = OkUsize(Len(RuleBefore.data))
                             /\ result.buf
                                    = RuleBefore.data
                                      \o SubSeq(arg.buf,
                                                Len(RuleBefore.data) + 1,
                                                Len(arg.buf))
                   /\ Delivered = RuleBefore.data
                   /\ Advanced
              ELSE panicked
    /\ (op \in Writes /\ RuleBefore.kind = "Recv") => panicked

\* 1 2 1 has been read into a buffer of exactly three octets.
C24_Witness ==
    /\ op = "read"
    /\ RuleBefore = Recv(<<1, 2, 1>>)
    /\ Len(arg.buf) = 3
    /\ result.buf = <<1, 2, 1>>
    /\ ~panicked

\* C25: under Send or SendAll a read returns a WouldBlock error, an async
\* read Pending; the stream is as it was, and the write the rule expects is
\* accepted afterwards.
C25_ReadWhileSending ==
    (op \in Reads /\ RuleBefore.kind \in {"Send", "SendAll"})
        => /\ ~panicked
           /\ op = "read" => result.ret = ErrWouldBlock /\ result.buf = arg.buf
           /\ op = "poll_read" => result.ret = Pending /\ result.buf = << >>
           /\ stream.rule_index = arg.before.rule_index
           /\ stream.all_index = arg.before.all_index
           /\ progress = arg.before.progress
           /\ arg.before.all_index = 0
                  => LET w == AssertStream_write(stream, RuleBefore.data)
                     IN  /\ w.ok
                         /\ w.ret = OkUsize(Len(RuleBefore.data))
                         /\ w.self.rule_index = stream.rule_index + 1

\* A read has been refused under SendAll.
C25_Witness ==
    /\ op = "read"
    /\ RuleBefore.kind = "SendAll"
    /\ Len(arg.buf) > 0
    /\ result.ret = ErrWouldBlock

\* C26: under RecvClose every read returns no octets and leaves the buffer
\* alone, every write panics, and RecvClose stays the current rule.
C26_RecvClose ==
    (op \in StreamCalls /\ RuleBefore.kind = "RecvClose")
        => /\ op \in Reads
                  => /\ ~panicked
                     /\ op = "read"
                            => result.ret = OkUsize(0) /\ result.buf = arg.buf
                     /\ op = "poll_read"
                            => result.ret = OkUnit /\ result.buf = << >>
           /\ op \in Writes => panicked
           /\ Stayed
           /\ current_rule(stream) = RecvClose

\* A read into a buffer of three octets has returned 0 under RecvClose,
\* after another rule.
C26_Witness ==
    /\ op = "read"
    /\ RuleBefore = RecvClose
    /\ arg.before.rule_index = 1
    /\ Len(arg.buf) = 3
    /\ result.ret = OkUsize(0)

\* C27: under SendClose every read and every write panics and a shutdown
\* succeeds; a shutdown under any other rule, or none, panics.
C27_SendClose ==
    /\ (op \in Reads \cup Writes /\ RuleBefore.kind = "SendClose") => panicked
    /\ op = "poll_shutdown"
           => IF RuleBefore.kind = "SendClose"
              THEN ~panicked /\ result.ret = OkUnit
              ELSE panicked

\* The stream has been shut down under SendClose.
C27_Witness ==
    /\ op = "poll_shutdown"
    /\ RuleBefore = SendClose
    /\ ~panicked

C29_AllIndexWithinData ==
    ~panicked
        => IF current_rule(stream).kind \in {"SendAll", "RecvAll"}
           THEN /\ stream.all_index <= Len(current_rule(stream).data)
                /\ stream.all_index = Len(progress)
           ELSE stream.all_index = 0

\* C30: rule_index never decreases, grows by at most one per call, never
\* exceeds the number of rules, and all_index is 0 after it grew; with no
\* rule left every read and every write panics.
C30_RulesInOrder ==
    /\ stream.rule_index <= Len(stream.rules)
    /\ op \in StreamCalls
           => /\ stream.rule_index >= arg.before.rule_index
              /\ stream.rule_index <= arg.before.rule_index + 1
              /\ stream.rule_index > arg.before.rule_index
                     => stream.all_index = 0
              /\ (arg.before.rule_index = Len(stream.rules)
                  /\ op \in Reads \cup Writes)
                     => panicked /\ Stayed

\* With both rules of a stream consumed, the second a RecvAll read in
\* pieces, a read has panicked.
C30_Witness ==
    /\ op = "read"
    /\ Len(stream.rules) = 2
    /\ stream.rules[2].kind = "RecvAll"
    /\ arg.before.rule_index = 2
    /\ panicked

====
